---- MODULE Spec2Model ----
(***************************************************************************)
(* Model of the food-identification and product-matching pipeline of       *)
(* choices-count: the backend handlers of server.js (image analysis with   *)
(* the structured annotator and with the generative annotator, response    *)
(* normalization, product search against Open Food Facts) and the part of  *)
(* the UI (CameraTest.js) that chains an analysis into a product search.   *)
(*                                                                         *)
(* JavaScript values are modelled as tagged records, so that the code's    *)
(* reliance on undefined / null / 0 / '' / [] truthiness is kept:          *)
(*   [undef |-> TRUE], [null |-> TRUE], [num |-> n], [str |-> s],          *)
(*   [arr |-> <<...>>], [obj |-> record of JS values].                     *)
(* Scores of the structured annotator are fixed-point thousandths.         *)
(***************************************************************************)
EXTENDS Integers, Sequences, FiniteSets, TLC

(***************************************************************************)
(* Bounds of the model.                                                    *)
(***************************************************************************)
\* longest foodItems list posted to /api/products/search
MaxItems == 2
\* longest searchTerms list of a posted FoodItem
MaxTerms == 2
\* most product records in one Open Food Facts response
MaxProducts == 4
\* number of catalogue positions a response may start at
WindowStarts == 2
\* longest products / foodItems array in a generative response
MaxEntries == 2
\* most fragments a prose response is made of
MaxFragments == 4
\* most label annotations, and most localized objects, of the structured annotator
MaxAnnotations == 2
\* largest value Date.now() takes in a run
MaxClock == 1
\* most uploads, and most searches, of the component awaiting a response at once
MaxPending == 2
\* most photos taken in a run
MaxCaptures == 2

(***************************************************************************)
(* JavaScript values.                                                      *)
(***************************************************************************)
Undefined == [undef |-> TRUE]
Null == [null |-> TRUE]
Num(n) == [num |-> n]
Str(s) == [str |-> s]
Arr(a) == [arr |-> a]
Obj(o) == [obj |-> o]

IsUndefined(v) == "undef" \in DOMAIN v
IsNull(v) == "null" \in DOMAIN v
IsNum(v) == "num" \in DOMAIN v
IsStr(v) == "str" \in DOMAIN v
IsArr(v) == "arr" \in DOMAIN v
IsObj(v) == "obj" \in DOMAIN v

\* ToBoolean(v): what `if (v)`, `!v`, `v || w`, `v && w`, `v ? a : b` test
Truthy(v) ==
  CASE IsUndefined(v) -> FALSE
    [] IsNull(v) -> FALSE
    [] IsNum(v) -> v.num # 0
    [] IsStr(v) -> v.str # ""
    [] OTHER -> TRUE

\* v || w
Or(v, w) == IF Truthy(v) THEN v ELSE w

\* v.f throws a TypeError exactly when v is null or undefined
AccessThrows(v) == IsUndefined(v) \/ IsNull(v)

\* v.f for v neither null nor undefined: own field of an object, else undefined
Get(v, f) == IF IsObj(v) /\ f \in DOMAIN v.obj THEN v.obj[f] ELSE Undefined

\* v !== w for the values compared in the code (primitives)
StrictNotEqual(v, w) == v # w

\* the empty object {}
EmptyRecord == [f \in {} |-> Undefined]

(***************************************************************************)
(* Strings: String.prototype.toLowerCase, includes.                        *)
(***************************************************************************)
UpperLetters == "ABCDEFGHIJKLMNOPQRSTUVWXYZ"
LowerLetters == "abcdefghijklmnopqrstuvwxyz"

CharAt(s, i) == SubSeq(s, i, i)

\* the lower-case letter of each upper-case letter
LowerOf ==
  [c \in {CharAt(UpperLetters, k) : k \in 1..26} |->
     CharAt(LowerLetters, CHOOSE k \in 1..26 : CharAt(UpperLetters, k) = c)]

LowerChar(c) == IF c \in DOMAIN LowerOf THEN LowerOf[c] ELSE c

\* characters i..j of s in lower case
RECURSIVE LowerRange(_, _, _)
LowerRange(s, i, j) ==
  IF i > j THEN ""
  ELSE IF i = j THEN LowerChar(CharAt(s, i))
  ELSE LowerRange(s, i, (i + j) \div 2) \o LowerRange(s, ((i + j) \div 2) + 1, j)

ToLowerCase(s) == LowerRange(s, 1, Len(s))

\* s.includes(sub)
Includes(s, sub) ==
  \E i \in 1..(Len(s) - Len(sub) + 1) : SubSeq(s, i, i + Len(sub) - 1) = sub

\* array.filter(keep), array.map(f), array.slice(0, n)
RECURSIVE SelectIdx(_, _)
SelectIdx(n, keep) ==
  IF n = 0 THEN <<>>
  ELSE IF n \in keep THEN Append(SelectIdx(n - 1, keep), n)
  ELSE SelectIdx(n - 1, keep)

Filter(a, Keep(_)) ==
  LET idx == SelectIdx(Len(a), {i \in 1..Len(a) : Keep(a[i])})
  IN  [k \in 1..Len(idx) |-> a[idx[k]]]

Map(a, F(_)) == [k \in 1..Len(a) |-> F(a[k])]

Slice0(a, n) == SubSeq(a, 1, IF Len(a) < n THEN Len(a) ELSE n)

(***************************************************************************)
(* Building the inputs of the model.                                       *)
(***************************************************************************)
\* the sequences over S of length at most n
RECURSIVE SeqsUpTo(_, _)
SeqsUpTo(S, n) ==
  IF n = 0 THEN {<<>>}
  ELSE LET shorter == SeqsUpTo(S, n - 1)
       IN  shorter \cup {Append(q, x) : q \in {r \in shorter : Len(r) = n - 1}, x \in S}

\* r with field f set to v
With(r, f, v) == [g \in DOMAIN r \cup {f} |-> IF g = f THEN v ELSE r[g]]

\* the search terms that occur in requests
TermPool == {Str("gala apple"), Str("apple")}



(***************************************************************************)
(* extractCertificationStatus: organic / fair-trade status inferred from   *)
(* the labels of an Open Food Facts product record.                        *)
(***************************************************************************)
OrganicKeywords == <<"organic", "bio", "organique", "ecologique", "biologique">>
FairTradeKeywords == <<"fair trade", "fairtrade", "commerce equitable", "max havelaar">>

IsOrganicTag(tag) ==
  Includes(tag.str, "organic") \/ Includes(tag.str, "bio") \/ Includes(tag.str, "en:organic")

IsFairTradeTag(tag) ==
  Includes(tag.str, "fair-trade") \/ Includes(tag.str, "fairtrade")
    \/ Includes(tag.str, "en:fair-trade")

extractCertificationStatus(product) ==
  LET labels == ToLowerCase(Or(Get(product, "labels"), Str("")).str)
      labelsTags == Or(Get(product, "labels_tags"), Arr(<<>>)).arr
      organicTags == Filter(labelsTags, IsOrganicTag)
      fairTradeTags == Filter(labelsTags, IsFairTradeTag)
  IN  [organicStatus |->
         IF Len(organicTags) > 0
            \/ \E k \in 1..Len(OrganicKeywords) : Includes(labels, OrganicKeywords[k])
         THEN Str("certified_organic") ELSE Str("unknown"),
       fairTradeStatus |->
         IF Len(fairTradeTags) > 0
            \/ \E k \in 1..Len(FairTradeKeywords) : Includes(labels, FairTradeKeywords[k])
         THEN Str("certified_fair_trade") ELSE Str("unknown"),
       certificationLabels |-> organicTags \o fairTradeTags,
       allLabels |-> labels]

(***************************************************************************)
(* POST /api/products/search: the per-item lookup.                         *)
(***************************************************************************)
\* a variant in which the database's status wins over the item's own
MergePrefersDatabase(own, inferred) ==
  IF StrictNotEqual(inferred, Str("unknown")) THEN inferred ELSE own

\* foodItem.organicStatus !== 'unknown' ? foodItem.organicStatus : certificationInfo.organicStatus
MergeStatus(own, inferred) ==
  IF StrictNotEqual(own, Str("unknown")) THEN own ELSE inferred

\* `${v}` for the values that reach the product url
TemplateString(v) ==
  CASE IsStr(v) -> v.str
    [] IsNull(v) -> "null"
    [] OTHER -> "undefined"

\* one entry of `products` (the ProductMatch)
ProductMatch(foodItem, product) ==
  LET certificationInfo == extractCertificationStatus(product)
  IN  [id |-> Or(Get(product, "id"), Get(product, "_id")),
       name |-> Or(Get(product, "product_name"),
                   Or(Get(product, "product_name_en"), Str("Unknown Product"))),
       brand |-> Or(Get(product, "brands"), Str("")),
       url |-> Str("https://world.openfoodfacts.org/product/"
                   \o TemplateString(Or(Get(product, "code"), Get(product, "id")))),
       image |-> Or(Get(product, "image_url"), Get(product, "image_front_url")),
       nutritionGrade |-> Or(Get(product, "nutrition_grades"), Get(product, "nutriscore_grade")),
       categories |-> Or(Get(product, "categories"), Str("")),
       labels |-> Or(Get(product, "labels"), Str("")),
       labels_tags |-> Or(Get(product, "labels_tags"), Arr(<<>>)),
       organicStatusOFF |-> certificationInfo.organicStatus,
       fairTradeStatusOFF |-> certificationInfo.fairTradeStatus,
       certificationLabels |-> certificationInfo.certificationLabels,
       organicStatus |-> MergeStatus(Get(foodItem, "organicStatus"),
                                     certificationInfo.organicStatus),
       fairTradeStatus |-> MergeStatus(Get(foodItem, "fairTradeStatus"),
                                       certificationInfo.fairTradeStatus),
       confidence |-> Get(foodItem, "confidence")]

\* data.products.slice(0, 3).map(...)
MatchCap == 3

\* a variant without the slice(0, 3)
MatchesUncapped(foodItem, records) ==
  LET M(product) == ProductMatch(foodItem, product) IN Map(records, M)

\* data.products.slice(0, 3).map(product => ...)
Matches(foodItem, records) ==
  LET M(product) == ProductMatch(foodItem, product) IN Map(Slice0(records, MatchCap), M)

\* a variant that always queries the name first
SearchTermsNameFirst(foodItem) ==
  IF Truthy(Get(foodItem, "searchTerms"))
  THEN <<Get(foodItem, "name")>> \o Get(foodItem, "searchTerms").arr
  ELSE <<Get(foodItem, "name")>>

\* a variant that goes through the terms twice
SearchTermsTwice(foodItem) ==
  Or(Get(foodItem, "searchTerms"), Arr(<<Get(foodItem, "name")>>)).arr
    \o Or(Get(foodItem, "searchTerms"), Arr(<<Get(foodItem, "name")>>)).arr

\* const searchTerms = foodItem.searchTerms || [foodItem.name]
SearchTermsOf(foodItem) ==
  Or(Get(foodItem, "searchTerms"), Arr(<<Get(foodItem, "name")>>)).arr

\* bestResult of a term that yielded products
BestResult(foodItem, term, records) ==
  [searchTerm |-> term,
   detectedConfidence |-> Get(foodItem, "confidence"),
   organicStatus |-> Get(foodItem, "organicStatus"),
   fairTradeStatus |-> Get(foodItem, "fairTradeStatus"),
   certificationInfo |-> Get(foodItem, "certificationInfo"),
   products |-> Matches(foodItem, records)]

\* a variant that records the last term tried instead of the item's name
EmptyResultLastTerm(foodItem) ==
  LET searchTerms == SearchTermsOf(foodItem)
  IN  [searchTerm |-> IF Len(searchTerms) > 0 THEN searchTerms[Len(searchTerms)]
                      ELSE Get(foodItem, "name"),
       detectedConfidence |-> Get(foodItem, "confidence"),
       organicStatus |-> Get(foodItem, "organicStatus"),
       fairTradeStatus |-> Get(foodItem, "fairTradeStatus"),
       certificationInfo |-> Get(foodItem, "certificationInfo"),
       products |-> <<>>]

\* the result pushed when no term yielded a product
EmptyResult(foodItem) ==
  [searchTerm |-> Get(foodItem, "name"),
   detectedConfidence |-> Get(foodItem, "confidence"),
   organicStatus |-> Get(foodItem, "organicStatus"),
   fairTradeStatus |-> Get(foodItem, "fairTradeStatus"),
   certificationInfo |-> Get(foodItem, "certificationInfo"),
   products |-> <<>>]

\* the result pushed by the per-item catch
ErrorResult(foodItem, message) ==
  [searchTerm |-> Get(foodItem, "name"),
   detectedConfidence |-> Get(foodItem, "confidence"),
   products |-> <<>>,
   error |-> Str(message)]

\* a variant of the per-item catch that records nothing for the failed item
CatchDropsItem(results, foodItem, message) == results

\* a variant of the per-item catch whose entry keeps the certification summary
CatchKeepsSummary(results, foodItem, message) ==
  Append(results,
         [searchTerm |-> Get(foodItem, "name"),
          detectedConfidence |-> Get(foodItem, "confidence"),
          organicStatus |-> Get(foodItem, "organicStatus"),
          fairTradeStatus |-> Get(foodItem, "fairTradeStatus"),
          certificationInfo |-> Get(foodItem, "certificationInfo"),
          products |-> <<>>,
          error |-> Str(message)])

\* the per-item catch: push the error entry and go on with the next item
CatchSearchError(results, foodItem, message) ==
  Append(results, ErrorResult(foodItem, message))

\* data.products && data.products.length > 0
HasProducts(data) ==
  Truthy(Get(data, "products")) /\ Len(Get(data, "products").arr) > 0


(***************************************************************************)
(* extractFoodItems: heuristic extraction from prose.                      *)
(* Each pattern is /<literal><optional>?[:\s]*([^\.]+)/i, matched by       *)
(* text.match (leftmost match, greedy with backtracking).                  *)
(***************************************************************************)
IsSeparator(c) == c \in {":", " ", "\n", "\t"}
IsSpace(c) == c \in {" ", "\n", "\t"}

\* number of consecutive [:\s] characters of text from position a on
RECURSIVE SeparatorRun(_, _)
SeparatorRun(text, a) ==
  IF a <= Len(text) /\ IsSeparator(CharAt(text, a)) THEN 1 + SeparatorRun(text, a + 1) ELSE 0

\* where ([^\.]+) starts when [:\s]* is tried from position a on, 0 if it cannot match:
\* [:\s]* takes all separators, and gives the last one back if no other character follows
CaptureStart(text, a) ==
  LET k == SeparatorRun(text, a)
      c == a + k
  IN  IF c <= Len(text) /\ CharAt(text, c) # "." THEN c
      ELSE IF k >= 1 THEN c - 1
      ELSE 0

\* the match attempt at position p: start of the capture, 0 if there is no match at p
MatchAt(text, lower, p, literal, optional) ==
  LET e == p + Len(literal)
  IN  IF e - 1 > Len(text) \/ SubSeq(lower, p, e - 1) # literal THEN 0
      ELSE LET taken == IF e <= Len(text) /\ CharAt(lower, e) = optional
                        THEN CaptureStart(text, e + 1) ELSE 0
           IN  IF taken # 0 THEN taken ELSE CaptureStart(text, e)

\* [^\.]+ from position c on: up to the next '.' or the end of the text
CaptureEnd(text, c) ==
  LET dots == {i \in c..Len(text) : CharAt(text, i) = "."}
  IN  IF dots = {} THEN Len(text)
      ELSE (CHOOSE i \in dots : \A j \in dots : i <= j) - 1

\* text.match(pattern): [matched, group1]
RegexMatch(text, lower, literal, optional) ==
  LET hits == {p \in 1..Len(text) : MatchAt(text, lower, p, literal, optional) # 0}
  IN  IF hits = {} THEN [matched |-> FALSE]
      ELSE LET p == CHOOSE q \in hits : \A r \in hits : q <= r
               c == MatchAt(text, lower, p, literal, optional)
           IN  [matched |-> TRUE, group1 |-> SubSeq(text, c, CaptureEnd(text, c))]

\* s.split(/[,;]/)
RECURSIVE Split(_)
Split(s) ==
  LET cuts == {i \in 1..Len(s) : CharAt(s, i) \in {",", ";"}}
  IN  IF cuts = {} THEN <<s>>
      ELSE LET i == CHOOSE j \in cuts : \A k \in cuts : j <= k
           IN  <<SubSeq(s, 1, i - 1)>> \o Split(SubSeq(s, i + 1, Len(s)))

\* s.trim()
RECURSIVE Trim(_)
Trim(s) ==
  IF Len(s) > 0 /\ IsSpace(CharAt(s, 1)) THEN Trim(SubSeq(s, 2, Len(s)))
  ELSE IF Len(s) > 0 /\ IsSpace(CharAt(s, Len(s))) THEN Trim(SubSeq(s, 1, Len(s) - 1))
  ELSE s

\* the three foodPatterns: literal and optional last letter
foodPatterns ==
  << [literal |-> "food item", optional |-> "s"],
     [literal |-> "identifie", optional |-> "d"],
     [literal |-> "contain", optional |-> "s"] >>

\* the names pushed to `items` by patterns k..3 (lower is the text in lower case, for /i)
RECURSIVE PatternItems(_, _, _)
PatternItems(text, lower, k) ==
  IF k > Len(foodPatterns) THEN <<>>
  ELSE LET match == RegexMatch(text, lower, foodPatterns[k].literal, foodPatterns[k].optional)
       IN  (IF match.matched THEN Map(Split(match.group1), Trim) ELSE <<>>)
             \o PatternItems(text, lower, k + 1)

Max(a, b) == IF a >= b THEN a ELSE b

\* items.slice(0, 5)
HeuristicCap == 5

\* Math.max(60, 95 - index * 10), index counted from 0
HeuristicConfidence(index) == Max(60, 95 - index * 10)

\* a variant without the slice(0, 5)
HeuristicItemsUncapped(text) ==
  LET items == PatternItems(text, ToLowerCase(text), 1)
  IN  [k \in 1..Len(items) |->
         Obj([name |-> Str(items[k]),
              confidence |-> Num(HeuristicConfidence(k - 1)),
              category |-> Str("detected_food")])]

extractFoodItems(text) ==
  LET items == Slice0(PatternItems(text, ToLowerCase(text), 1), HeuristicCap)
  IN  [k \in 1..Len(items) |->
         Obj([name |-> Str(items[k]),
              confidence |-> Num(HeuristicConfidence(k - 1)),
              category |-> Str("detected_food")])]

(***************************************************************************)
(* extractCompatibleFoodItems: FoodItems of a generative response.         *)
(* The result is [throws |-> TRUE] when the code raises a TypeError.       *)
(***************************************************************************)
\* searchTerms: product.openFoodFactsSearchTerms || [product.name]
ProductSearchTerms(product) ==
  Or(Get(product, "openFoodFactsSearchTerms"), Arr(<<Get(product, "name")>>))

\* the FoodItem of one entry of the products array
ProductFoodItem(product) ==
  Obj([name |-> Get(product, "name"),
       confidence |-> Or(Get(product, "confidence"), Num(80)),
       category |-> Str("detected_food"),
       type |-> Or(Get(product, "type"), Str("unknown")),
       position |-> Or(Get(product, "position"), Str("unknown")),
       quantity |-> Or(Get(product, "quantity"), Num(1)),
       brandInfo |-> Or(Get(product, "brandInfo"), Null),
       searchTerms |-> ProductSearchTerms(product),
       organicStatus |-> Or(Get(product, "organicStatus"), Str("unknown")),
       fairTradeStatus |-> Or(Get(product, "fairTradeStatus"), Str("unknown")),
       certificationInfo |-> Or(Get(product, "certificationInfo"), Null)])

\* the FoodItem of one entry of the legacy foodItems array
LegacyFoodItem(item) ==
  Obj([name |-> IF IsStr(item) THEN item ELSE Or(Get(item, "name"), Get(item, "food")),
       confidence |-> Or(Get(item, "confidence"), Num(80)),
       category |-> Str("detected_food")])

\* structuredData && structuredData.<field> && Array.isArray(structuredData.<field>)
HasArray(structuredData, field) ==
  /\ Truthy(structuredData)
  /\ Truthy(Get(structuredData, field))
  /\ IsArr(Get(structuredData, field))

\* a variant that leaves an empty products array to the later branches
ProductsBranchSkipsEmpty(structuredData) ==
  HasArray(structuredData, "products") /\ Len(Get(structuredData, "products").arr) > 0

\* structuredData && structuredData.products && Array.isArray(structuredData.products)
ProductsBranch(structuredData) == HasArray(structuredData, "products")

extractCompatibleFoodItems(structuredData, text) ==
  IF ProductsBranch(structuredData)
  THEN LET products == Get(structuredData, "products").arr
       IN  IF \E i \in 1..Len(products) : AccessThrows(products[i])
           THEN [throws |-> TRUE]
           ELSE [throws |-> FALSE, items |-> Map(products, ProductFoodItem)]
  ELSE IF HasArray(structuredData, "foodItems")
  THEN LET legacy == Get(structuredData, "foodItems").arr
       IN  IF \E i \in 1..Len(legacy) : AccessThrows(legacy[i])
           THEN [throws |-> TRUE]
           ELSE [throws |-> FALSE, items |-> Map(legacy, LegacyFoodItem)]
  ELSE [throws |-> FALSE, items |-> extractFoodItems(text)]

(***************************************************************************)
(* State.                                                                  *)
(***************************************************************************)
VARIABLES
  analysis,        \* the analyze request handled so far: endpoint, provider reply, response
  searchOrigin,    \* "none", "direct" (a client's POST) or "chained" (sent by the UI)
  searchBody,      \* req.body of POST /api/products/search
  pc,              \* search handler: "idle", "fetching" (awaiting fetch / json), "done"
  itemIdx,         \* position of the for-of loop over foodItems
  termIdx,         \* position of the for-of loop over searchTerms
  productResults,  \* the handler's productResults array
  queries,         \* the product-database queries issued so far: [item, term]
  replies,         \* what the product database answered to them, in order
  searchResp,      \* the response sent by the search handler
  env,             \* what the server found in process.env when it started
  disk,            \* the files under __dirname: path (list of segments) -> content
  served,          \* the last upload or analyze request served, with its response
  ui,              \* the state of the CameraTest component (its useState values)
  pending          \* the asynchronous calls of the component awaiting a response

serverVars == <<env, disk, served>>

uiVars == <<ui, pending>>

vars == <<analysis, searchOrigin, searchBody, pc, itemIdx, termIdx,
          productResults, queries, replies, searchResp, serverVars, uiVars>>

searchVars == <<searchOrigin, searchBody, pc, itemIdx, termIdx,
                productResults, queries, replies, searchResp>>

NoAnalysis == [endpoint |-> "none"]
NoResponse == [status |-> 0]

(***************************************************************************)
(* The product database (Open Food Facts), as the handler sees it.         *)
(***************************************************************************)
Catalog ==
  << Obj([id |-> Str("p1"), code |-> Str("0001"), product_name |-> Str("Plain Rice"),
          brands |-> Str("Acme")]),
     Obj([_id |-> Str("p2"), product_name_en |-> Str("Apples"),
          labels |-> Str("Organic, EU Organic"),
          labels_tags |-> Arr(<<Str("en:organic"), Str("en:eu-organic")>>)]),
     Obj([id |-> Str("p3"), code |-> Str("0003"), product_name |-> Str("Coffee"),
          labels_tags |-> Arr(<<Str("en:fair-trade"), Str("en:Organic")>>)]),
     Obj([id |-> Str("p4"), product_name |-> Str("Chocolate"),
          labels |-> Str("BIO, Max Havelaar")]) >>

\* n consecutive catalogue records from position i on (cyclically)
Window(i, n) == [k \in 1..n |-> Catalog[((i + k - 2) % Len(Catalog)) + 1]]

Responses == {Window(i, n) : i \in 1..WindowStarts, n \in 0..MaxProducts}

\* what `await fetch(searchUrl)` followed by `await response.json()` can produce
Outcomes ==
  {[kind |-> "fetch_rejects"], [kind |-> "json_rejects"]}
    \cup {[kind |-> "json", data |-> Obj(EmptyRecord)]}
    \cup {[kind |-> "json", data |-> Obj([products |-> Arr(r)])] : r \in Responses}

OutcomeThrows(o) == o.kind # "json"

ErrorMessage(o) ==
  IF o.kind = "fetch_rejects" THEN "fetch failed" ELSE "Unexpected token < in JSON at position 0"

(***************************************************************************)
(* The search handler, from one await to the next.                         *)
(***************************************************************************)
\* runs the for-of loop over foodItems from item i until a fetch must be awaited
\* (an item with no search term gets its empty result at once)
RECURSIVE SkipToFetch(_, _, _)
SkipToFetch(items, results, i) ==
  IF i > Len(items) THEN [results |-> results, itemIdx |-> i]
  ELSE IF Len(SearchTermsOf(items[i])) > 0 THEN [results |-> results, itemIdx |-> i]
  ELSE SkipToFetch(items, Append(results, EmptyResult(items[i])), i + 1)

\* a variant whose totalSearches counts the entries that found products
SuccessResponseCountsHits(items, results) ==
  [status |-> 200, success |-> TRUE, searchResults |-> results,
   totalSearches |-> Cardinality({k \in 1..Len(results) : Len(results[k].products) > 0})]

\* res.json({ success: true, data: { searchResults, totalSearches: foodItems.length } })
SuccessResponse(items, results) ==
  [status |-> 200, success |-> TRUE, searchResults |-> results, totalSearches |-> Len(items)]

\* items[i] is next: either await its first fetch or send the response
Continue(items, results, i) ==
  LET r == SkipToFetch(items, results, i)
  IN  /\ productResults' = r.results
      /\ itemIdx' = r.itemIdx
      /\ termIdx' = 1
      /\ IF r.itemIdx > Len(items)
         THEN /\ pc' = "done"
              /\ searchResp' = SuccessResponse(items, r.results)
              /\ queries' = queries
         ELSE /\ pc' = "fetching"
              /\ searchResp' = searchResp
              /\ queries' = Append(queries,
                   [item |-> r.itemIdx, term |-> SearchTermsOf(items[r.itemIdx])[1]])

\* a variant of the validation without the test for an empty array
InvalidBodyAllowsEmpty(body) ==
  LET foodItems == Get(body, "foodItems")
  IN  ~Truthy(foodItems) \/ ~IsArr(foodItems)

\* !foodItems || !Array.isArray(foodItems) || foodItems.length === 0
InvalidBody(body) ==
  LET foodItems == Get(body, "foodItems")
  IN  ~Truthy(foodItems) \/ ~IsArr(foodItems) \/ Len(foodItems.arr) = 0

\* foodItems.map(item => item.name) of the console.log, outside the per-item try
LogThrows(items) == \E i \in 1..Len(items) : AccessThrows(items[i])

\* the handler from the arrival of the request to its first await (or its response)
SearchStart(origin, body) ==
  /\ pc = "idle"
  /\ searchOrigin' = origin
  /\ searchBody' = body
  /\ replies' = replies
  /\ UNCHANGED <<serverVars, uiVars>>
  /\ IF InvalidBody(body)
     THEN /\ pc' = "done"
          /\ searchResp' = [status |-> 400, error |-> "foodItems array is required"]
          /\ UNCHANGED <<itemIdx, termIdx, productResults, queries>>
     ELSE IF LogThrows(Get(body, "foodItems").arr)
     THEN /\ pc' = "done"
          /\ searchResp' = [status |-> 500, error |-> "Failed to search products"]
          /\ UNCHANGED <<itemIdx, termIdx, productResults, queries>>
     ELSE Continue(Get(body, "foodItems").arr, <<>>, 1)

\* the pending fetch returns (or throws) and the handler runs to its next await
FetchReturn ==
  /\ pc = "fetching"
  /\ \E o \in Outcomes :
       LET items == Get(searchBody, "foodItems").arr
           foodItem == items[itemIdx]
           searchTerms == SearchTermsOf(foodItem)
           term == searchTerms[termIdx]
       IN  /\ replies' = Append(replies, o)
           /\ UNCHANGED <<analysis, searchOrigin, searchBody, serverVars, uiVars>>
           /\ IF OutcomeThrows(o)
              THEN Continue(items,
                            CatchSearchError(productResults, foodItem, ErrorMessage(o)),
                            itemIdx + 1)
              ELSE IF HasProducts(o.data)
              THEN Continue(items,
                            Append(productResults,
                                   BestResult(foodItem, term, Get(o.data, "products").arr)),
                            itemIdx + 1)
              ELSE IF termIdx < Len(searchTerms)
              THEN /\ termIdx' = termIdx + 1
                   /\ queries' = Append(queries,
                        [item |-> itemIdx, term |-> searchTerms[termIdx + 1]])
                   /\ UNCHANGED <<pc, itemIdx, productResults, searchResp>>
              ELSE Continue(items, Append(productResults, EmptyResult(foodItem)),
                            itemIdx + 1)

(***************************************************************************)
(* POST /api/images/analyze: the structured annotator's labels and objects.*)
(* A score is a number of thousandths: 0.6 is 600.                         *)
(***************************************************************************)
\* label.score > 0.6 and obj.score > 0.5
LabelThreshold == 600
ObjectThreshold == 500

\* a variant that also keeps a score equal to the threshold
GreaterOrEqual(v, threshold) == IsNum(v) /\ v.num >= threshold

\* v > threshold for a JS value v and a number: false when v is undefined
Greater(v, threshold) == IsNum(v) /\ v.num > threshold

\* Math.round(score * 100): halves round up
RoundPercent(score) == (score + 5) \div 10

LabelFoodItem(label) ==
  Obj([name |-> Get(label, "description"),
       confidence |-> Num(RoundPercent(Get(label, "score").num)),
       category |-> Str("detected_food")])

ObjectEntry(obj) ==
  Obj([name |-> Get(obj, "name"),
       confidence |-> Num(RoundPercent(Get(obj, "score").num)),
       category |-> Str("detected_object")])

\* results.foodItems and results.objects
LabelPasses(label) == Greater(Get(label, "score"), LabelThreshold)

ObjectPasses(obj) == Greater(Get(obj, "score"), ObjectThreshold)

\* a variant that appends the kept objects to the food items
VisionFoodItemsWithObjects(labels, objects) ==
  Map(Filter(labels, LabelPasses), LabelFoodItem)
    \o Map(Filter(objects, ObjectPasses), ObjectEntry)

\* results.foodItems: the labels above the threshold, objects are not among them
VisionFoodItems(labels, objects) == Map(Filter(labels, LabelPasses), LabelFoodItem)

VisionObjects(objects) == Map(Filter(objects, ObjectPasses), ObjectEntry)

\* the response once the three annotator calls have returned (or one has thrown)
AnalyzeResponse(reply) ==
  IF reply.kind = "throws"
  THEN [status |-> 500, error |-> "Failed to analyze image"]
  ELSE LET labels == Or(reply.labelAnnotations, Arr(<<>>)).arr
           objects == Or(reply.localizedObjectAnnotations, Arr(<<>>)).arr
       IN  [status |-> 200, success |-> TRUE,
            foodItems |-> VisionFoodItems(labels, objects),
            objects |-> VisionObjects(objects),
            totalLabels |-> Len(labels),
            apiProvider |-> "Google Cloud Vision"]

\* the handler once the three annotator calls have returned (or one has thrown)
HandleAnalyze(reply) ==
  /\ analysis = NoAnalysis
  /\ searchOrigin = "none"
  /\ analysis' = [endpoint |-> "analyze", reply |-> reply, response |-> AnalyzeResponse(reply)]
  /\ UNCHANGED <<searchVars, serverVars, uiVars>>

(***************************************************************************)
(* POST /api/images/analyze-openai: parsing and assembly of the response.  *)
(***************************************************************************)
Digits == "0123456789"

RECURSIVE NumToString(_)
NumToString(n) ==
  IF n < 10 THEN CharAt(Digits, n + 1)
  ELSE NumToString(n \div 10) \o CharAt(Digits, (n % 10) + 1)

\* the order in which the generative provider writes the fields of an object
JsonFieldOrder ==
  << "products", "foodItems", "summary", "name", "food", "confidence", "type", "position",
     "quantity", "brandInfo", "openFoodFactsSearchTerms", "organicStatus",
     "fairTradeStatus", "certificationInfo" >>

\* the JSON text of a value, as the provider writes it
RECURSIVE Stringify(_), StringifyElements(_, _), StringifyFields(_, _, _)
Stringify(v) ==
  CASE IsNull(v) -> "null"
    [] IsNum(v) -> NumToString(v.num)
    [] IsStr(v) -> "\"" \o v.str \o "\""
    [] IsArr(v) -> "[" \o StringifyElements(v.arr, 1) \o "]"
    [] OTHER -> "{" \o StringifyFields(v.obj, 1, TRUE) \o "}"

StringifyElements(a, i) ==
  IF i > Len(a) THEN ""
  ELSE (IF i > 1 THEN "," ELSE "") \o Stringify(a[i]) \o StringifyElements(a, i + 1)

StringifyFields(o, k, first) ==
  IF k > Len(JsonFieldOrder) THEN ""
  ELSE IF JsonFieldOrder[k] \in DOMAIN o
  THEN (IF first THEN "" ELSE ",") \o "\"" \o JsonFieldOrder[k] \o "\":"
         \o Stringify(o[JsonFieldOrder[k]]) \o StringifyFields(o, k + 1, FALSE)
  ELSE StringifyFields(o, k + 1, first)

\* entries of a products array
BaseEntry == [name |-> Str("Rice")]

FullEntry ==
  [name |-> Str("Gala Apple"), confidence |-> Num(90), type |-> Str("fresh"),
   position |-> Str("center"), quantity |-> Num(3), brandInfo |-> Str("Acme"),
   openFoodFactsSearchTerms |-> Arr(<<Str("gala apple"), Str("apple")>>),
   organicStatus |-> Str("certified"), fairTradeStatus |-> Str("unknown"),
   certificationInfo |-> Str("USDA Organic seal")]

ProductEntries ==
  {Obj(BaseEntry), Obj(FullEntry)}
    \cup {Obj(With(BaseEntry, "confidence", Num(c))) : c \in {0, 90, 100, 150}}
    \cup {Obj(With(BaseEntry, "openFoodFactsSearchTerms", Arr(t))) :
            t \in SeqsUpTo(TermPool, MaxTerms)}
    \cup {Obj(With(With(BaseEntry, "organicStatus", o), "fairTradeStatus", f)) :
            o \in {Str("unknown"), Str("certified")}, f \in {Null, Str("likely")}}

\* entries of a legacy foodItems array
LegacyEntries ==
  {Str("rice"), Obj([name |-> Str("Beans"), confidence |-> Num(70)]),
   Obj([food |-> Str("Corn")]), Obj([name |-> Str("Tofu"), confidence |-> Num(0)])}

ProductCycle ==
  << Obj(FullEntry), Obj(BaseEntry),
     Obj(With(BaseEntry, "openFoodFactsSearchTerms", Arr(<<>>))) >>

LegacyCycle == << Str("rice"), Obj([name |-> Str("Beans"), confidence |-> Num(70)]) >>

\* arrays of n entries taken cyclically from position i of a cycle
CycleWindow(cycle, i, n) == [k \in 1..n |-> cycle[((i + k - 2) % Len(cycle)) + 1]]

ProductArrays ==
  {<<>>} \cup {<<e>> : e \in ProductEntries}
    \cup {CycleWindow(ProductCycle, i, n) : i \in 1..Len(ProductCycle), n \in 2..MaxEntries}

LegacyArrays ==
  {<<>>} \cup {<<e>> : e \in LegacyEntries}
    \cup {CycleWindow(LegacyCycle, i, n) : i \in 1..Len(LegacyCycle), n \in 2..MaxEntries}

\* the JSON documents the generative provider may answer with
JsonDocs ==
  {Null, Num(5), Str("rice"), Arr(<<>>), Obj(EmptyRecord),
   Obj([summary |-> Str("The bowl contains rice, beans")]),
   Obj([products |-> Str("none"), foodItems |-> Arr(<<Str("rice")>>)]),
   Obj([products |-> Arr(<<>>), foodItems |-> Arr(<<Str("rice")>>)]),
   Obj([products |-> Arr(<<Obj(BaseEntry)>>), foodItems |-> Arr(<<Str("rice")>>)])}
    \cup {Obj([products |-> Arr(a)]) : a \in ProductArrays}
    \cup {Obj([foodItems |-> Arr(a)]) : a \in LegacyArrays}

JsonPairs == {<<Stringify(d), d>> : d \in JsonDocs}

\* JSON.parse(text): the document whose text it is, a SyntaxError for any other text
ParseJSON(text) ==
  LET hits == {p \in JsonPairs : p[1] = text}
  IN  IF hits = {} THEN [ok |-> FALSE]
      ELSE [ok |-> TRUE, value |-> (CHOOSE p \in hits : TRUE)[2]]

\* prose answers: up to MaxFragments fragments, concatenated
Fragments ==
  {"Food items: ", "I identified ", "It contains ", "rice, beans; corn", "tofu", ". "}

RECURSIVE Concat(_, _)
Concat(q, i) == IF i > Len(q) THEN "" ELSE q[i] \o Concat(q, i + 1)

ProseTexts == {Concat(q, 1) : q \in SeqsUpTo(Fragments, MaxFragments)}

\* the handler from the provider's answer (or failure) to the response.
\* extractNutritionalInfo and extractPortionInfo only fill fields of the response
\* that never raise and are left out.
AnalyzeOpenAIResponse(reply) ==
  IF reply.kind = "throws"
  THEN [status |-> 500, error |-> "Failed to analyze image with OpenAI"]
  ELSE LET analysisText == reply.text
           parsed == ParseJSON(analysisText)
           structuredAnalysis ==
             IF parsed.ok THEN parsed.value
             ELSE Obj([rawAnalysis |-> Str(analysisText),
                       foodItems |-> Arr(extractFoodItems(analysisText)),
                       confidence |-> Str("high")])
           compatible == extractCompatibleFoodItems(structuredAnalysis, analysisText)
       IN  IF AccessThrows(structuredAnalysis) \/ compatible.throws
           THEN [status |-> 500, error |-> "Failed to analyze image with OpenAI"]
           ELSE [status |-> 200, success |-> TRUE,
                 conversationalSummary |-> analysisText,
                 products |-> Or(Get(structuredAnalysis, "products"), Arr(<<>>)),
                 foodItems |-> compatible.items,
                 apiProvider |-> "OpenAI GPT-4 Vision"]

\* the handler from the provider's answer (or failure) to the response
HandleAnalyzeOpenAI(reply) ==
  /\ analysis = NoAnalysis
  /\ searchOrigin = "none"
  /\ analysis' = [endpoint |-> "analyze-openai", reply |-> reply,
                  response |-> AnalyzeOpenAIResponse(reply)]
  /\ UNCHANGED <<searchVars, serverVars, uiVars>>

(***************************************************************************)
(* Requests a client posts to /api/products/search directly.               *)
(***************************************************************************)
StatusValues == {Str("unknown"), Str("certified"), Str("conventional")}

BaseItem == [name |-> Str("Apple"), confidence |-> Num(84), category |-> Str("detected_food")]

\* one FoodItem per searchTerms list, and one per pair of certification statuses
\* (a status field may be missing)
TermSamples ==
  {Obj(BaseItem)} \cup {Obj(With(BaseItem, "searchTerms", Arr(t))) : t \in SeqsUpTo(TermPool, MaxTerms)}

StatusSamples ==
  {Obj(With(With(BaseItem, "organicStatus", o), "fairTradeStatus", f)) :
     o \in StatusValues, f \in StatusValues}
    \cup {Obj(With(BaseItem, "organicStatus", o)) : o \in StatusValues}
    \cup {Obj(With(BaseItem, "fairTradeStatus", f)) : f \in StatusValues}

GalaApple ==
  Obj([name |-> Str("Gala Apple"), confidence |-> Num(90), category |-> Str("detected_food"),
       searchTerms |-> Arr(<<Str("gala apple"), Str("apple")>>),
       organicStatus |-> Str("certified"), fairTradeStatus |-> Str("unknown"),
       certificationInfo |-> Str("USDA Organic seal")])

Rice == Obj([name |-> Str("Rice"), confidence |-> Num(95), category |-> Str("detected_food")])

BatchSamples == <<GalaApple, Rice>>

\* lists of 2..MaxItems items alternating the two batch samples
BatchLists ==
  {[k \in 1..n |-> BatchSamples[((s + k) % 2) + 1]] : s \in 0..1, n \in 2..MaxItems}

PostedBodies ==
  {Obj(EmptyRecord), Obj([foodItems |-> Str("Apple")]), Obj([foodItems |-> Arr(<<>>)]),
   Obj([foodItems |-> Arr(<<Null>>)])}
    \cup {Obj([foodItems |-> Arr(<<x>>)]) : x \in TermSamples \cup StatusSamples}
    \cup {Obj([foodItems |-> Arr(l)]) : l \in BatchLists}

\* a client posts a body to /api/products/search
PostSearch ==
  /\ analysis = NoAnalysis
  /\ \E body \in PostedBodies : SearchStart("direct", body)
  /\ UNCHANGED analysis

(***************************************************************************)
(* The analyze endpoints over all modelled provider answers.               *)
(***************************************************************************)
LabelPool ==
  {Obj([description |-> Str("Food"), score |-> Num(600)]),
   Obj([description |-> Str("Fruit"), score |-> Num(601)]),
   Obj([description |-> Str("Apple"), score |-> Num(605)]),
   Obj([description |-> Str("Snack"), score |-> Num(844)]),
   Obj([description |-> Str("Red")])}

ObjectPool ==
  {Obj([name |-> Str("Food"), score |-> Num(500)]),
   Obj([name |-> Str("Fruit"), score |-> Num(501)]),
   Obj([name |-> Str("Apple"), score |-> Num(835)])}

VisionReplies ==
  {[kind |-> "throws"],
   [kind |-> "annotations", labelAnnotations |-> Undefined,
    localizedObjectAnnotations |-> Undefined]}
    \cup {[kind |-> "annotations", labelAnnotations |-> Arr(l),
           localizedObjectAnnotations |-> Arr(o)] :
            l \in SeqsUpTo(LabelPool, MaxAnnotations),
            o \in SeqsUpTo(ObjectPool, MaxAnnotations)}

GenerativeReplies ==
  {[kind |-> "throws"]}
    \cup {[kind |-> "content", text |-> Stringify(d)] : d \in JsonDocs}
    \cup {[kind |-> "content", text |-> t] : t \in ProseTexts}

AnalyzeVision == \E reply \in VisionReplies : HandleAnalyze(reply)

AnalyzeOpenAI == \E reply \in GenerativeReplies : HandleAnalyzeOpenAI(reply)

(***************************************************************************)
(* The UI pipeline: an analysis, then the chained product search.          *)
(***************************************************************************)
SampleVisionReplies ==
  {[kind |-> "throws"],
   [kind |-> "annotations",
    labelAnnotations |-> Arr(<<Obj([description |-> Str("Apple"), score |-> Num(840)]),
                               Obj([description |-> Str("Snack"), score |-> Num(600)])>>),
    localizedObjectAnnotations |-> Arr(<<Obj([name |-> Str("Apple"), score |-> Num(830)]),
                                         Obj([name |-> Str("Food"), score |-> Num(500)])>>)],
   [kind |-> "annotations",
    labelAnnotations |-> Arr(<<Obj([description |-> Str("Snack"), score |-> Num(600)])>>),
    localizedObjectAnnotations |-> Arr(<<Obj([name |-> Str("Apple"), score |-> Num(830)])>>)],
   [kind |-> "annotations",
    labelAnnotations |-> Arr(<<Obj([description |-> Str("Fruit"), score |-> Num(601)])>>),
    localizedObjectAnnotations |-> Arr(<<Obj([name |-> Str("Food"), score |-> Num(500)]),
                                         Obj([name |-> Str("Fruit"), score |-> Num(505)])>>)]}

SampleDocs ==
  {Null,
   Obj([products |-> Arr(<<>>)]),
   Obj([products |-> Arr(<<Obj(FullEntry)>>)]),
   Obj([products |-> Arr(<<Obj(BaseEntry)>>)]),
   Obj([products |-> Arr(<<Obj(With(BaseEntry, "openFoodFactsSearchTerms", Arr(<<>>)))>>)]),
   Obj([foodItems |-> Arr(<<Str("rice")>>)])}

SampleGenerativeReplies ==
  {[kind |-> "throws"],
   [kind |-> "content", text |-> "Food items: tofu"],
   [kind |-> "content", text |-> "A nice picture. "]}
    \cup {[kind |-> "content", text |-> Stringify(d)] : d \in SampleDocs}

\* what JSON.stringify followed by JSON.parse leaves of a value sent over HTTP:
\* undefined fields are dropped, undefined array elements become null
RECURSIVE JsonRoundTrip(_)
JsonRoundTrip(v) ==
  CASE IsArr(v) ->
         Arr([k \in 1..Len(v.arr) |->
                IF IsUndefined(v.arr[k]) THEN Null ELSE JsonRoundTrip(v.arr[k])])
    [] IsObj(v) ->
         Obj([f \in {g \in DOMAIN v.obj : ~IsUndefined(v.obj[g])} |-> JsonRoundTrip(v.obj[f])])
    [] OTHER -> v

\* analyzeImage: the UI posts the uploaded filename to /api/images/analyze
analyzeImage == \E reply \in SampleVisionReplies : HandleAnalyze(reply)

\* analyzeImageOpenAI: the UI posts the uploaded filename to /api/images/analyze-openai
analyzeImageOpenAI == \E reply \in SampleGenerativeReplies : HandleAnalyzeOpenAI(reply)

\* a variant that chains the search after every successful analysis
ChainsSearchAlways(response) == response.status = 200

\* result.data.results.foodItems && result.data.results.foodItems.length > 0
ChainsSearch(response) == response.status = 200 /\ Len(response.foodItems) > 0

\* the body of the chained request: { foodItems: result.data.results.foodItems }
ChainedBody(response) == Obj([foodItems |-> JsonRoundTrip(Arr(response.foodItems))])

\* searchProducts, called by analyzeImage / analyzeImageOpenAI after a successful analysis
searchProducts ==
  /\ analysis # NoAnalysis
  /\ ChainsSearch(analysis.response)
  /\ SearchStart("chained", ChainedBody(analysis.response))
  /\ UNCHANGED analysis

(***************************************************************************)
(* The server's start-up: which annotator clients exist.                   *)
(***************************************************************************)
\* visionClient: the Google client when credentials are set and its constructor
\* does not throw, the mock client in every other case
VisionClients(googleCredentials) ==
  IF googleCredentials THEN {"google", "mock"} ELSE {"mock"}

\* openaiClient: defined when the API key is set and the constructor does not throw
OpenAIClients(openaiKey) == IF openaiKey THEN {TRUE, FALSE} ELSE {FALSE}

Envs ==
  UNION {{[googleCredentials |-> g, visionClient |-> v, openaiKey |-> k, openaiClient |-> c] :
            v \in VisionClients(g), c \in OpenAIClients(k)} : g \in BOOLEAN, k \in BOOLEAN}

\* mockVisionResponses: what the mock client answers for every image
MockReply ==
  [kind |-> "annotations",
   labelAnnotations |->
     Arr(<<Obj([description |-> Str("Food"), score |-> Num(950)]),
           Obj([description |-> Str("Fruit"), score |-> Num(890)]),
           Obj([description |-> Str("Apple"), score |-> Num(840)]),
           Obj([description |-> Str("Produce"), score |-> Num(780)]),
           Obj([description |-> Str("Red"), score |-> Num(720)]),
           Obj([description |-> Str("Natural foods"), score |-> Num(680)]),
           Obj([description |-> Str("Snack"), score |-> Num(630)])>>),
   localizedObjectAnnotations |->
     Arr(<<Obj([name |-> Str("Food"), score |-> Num(910)]),
           Obj([name |-> Str("Fruit"), score |-> Num(870)]),
           Obj([name |-> Str("Apple"), score |-> Num(830)])>>)]

\* what the three annotator calls of the handler can return
VisionAnswers(visionClient) ==
  IF visionClient = "mock" THEN {MockReply} ELSE SampleVisionReplies

(***************************************************************************)
(* The files under __dirname. A path is the list of its segments below     *)
(* __dirname; a path that leaves __dirname starts with "..".               *)
(***************************************************************************)
\* the segments of a string between its "/"
RECURSIVE PathSegments(_)
PathSegments(s) ==
  LET slashes == {i \in 1..Len(s) : SubSeq(s, i, i) = "/"}
  IN  IF slashes = {} THEN <<s>>
      ELSE LET i == CHOOSE j \in slashes : \A k \in slashes : j <= k
           IN  <<SubSeq(s, 1, i - 1)>> \o PathSegments(SubSeq(s, i + 1, Len(s)))

\* path.normalize on segments: "" and "." vanish, ".." removes the segment before it
RECURSIVE NormalizeFrom(_, _, _)
NormalizeFrom(segments, i, done) ==
  IF i > Len(segments) THEN done
  ELSE LET seg == segments[i]
       IN  IF seg = "" \/ seg = "." THEN NormalizeFrom(segments, i + 1, done)
           ELSE IF seg = ".." /\ Len(done) > 0 /\ done[Len(done)] # ".."
           THEN NormalizeFrom(segments, i + 1, SubSeq(done, 1, Len(done) - 1))
           ELSE NormalizeFrom(segments, i + 1, Append(done, seg))

\* path.join(__dirname, 'uploads', filename)
PathJoinUploads(filename) == NormalizeFrom(<<"uploads">> \o PathSegments(filename), 1, <<>>)

\* the files of the application itself: server.js requires './vision-mock'
AppFiles == [p \in {<<"vision-mock.js">>} |-> "module"]

\* fs.existsSync: a file, or a directory that holds one
ExistsSync(d, path) ==
  \/ path \in DOMAIN d
  \/ \E f \in DOMAIN d : Len(f) > Len(path) /\ SubSeq(f, 1, Len(path)) = path

\* the files stored in the uploads directory, by name
Uploaded(d) == {f \in DOMAIN d : Len(f) = 2 /\ f[1] = "uploads"}

WriteFile(d, path, content) ==
  [f \in DOMAIN d \cup {path} |-> IF f = path THEN content ELSE d[f]]

Unlink(d, path) == [f \in DOMAIN d \ {path} |-> d[f]]

\* the destination callback: mkdirSync of the uploads directory unless it exists
Mkdir(d) == IF ExistsSync(d, <<"uploads">>) THEN d ELSE WriteFile(d, <<"uploads">>, "directory")

NoRequest == [endpoint |-> "none"]

(***************************************************************************)
(* POST /api/images/upload behind multer.                                  *)
(***************************************************************************)
\* limits.fileSize: 10 * 1024 * 1024
FileSizeLimit == 10485760

\* file.mimetype.startsWith('image/')
StartsWithImage(mimetype) == Len(mimetype) >= 6 /\ SubSeq(mimetype, 1, 6) = "image/"

\* file.originalname || `food-scan-${Date.now()}.png`
StoredFilename(originalname, now) ==
  IF originalname # "" THEN originalname
  ELSE "food-scan-" \o NumToString(now) \o ".png"

UploadNames == {"a.png", "food-scan-1.png", "blob", ""}

UploadRequests ==
  {[file |-> FALSE]}
    \cup [file : {TRUE}, originalname : UploadNames, mimetype : {"image/png", "text/plain"},
          size : {1024, FileSizeLimit + 1}, content : {"apple", "pear"}]

\* the response to a part the fileFilter refused: its Error reaches the error
\* middleware, which answers 400 only to MulterError LIMIT_FILE_SIZE
FilterError ==
  [status |-> 500, error |-> "Internal server error",
   details |-> "Only image files are allowed!"]

\* the error middleware on MulterError LIMIT_FILE_SIZE
LimitError == [status |-> 400, error |-> "File too large (max 10MB)"]

\* a client posts a multipart form to /api/images/upload. When the size limit stops
\* the write, the part already written under the name is either left or removed.
PostUpload ==
  \E req \in UploadRequests, now \in 1..MaxClock, removed \in BOOLEAN :
    LET filename == IF req.file THEN StoredFilename(req.originalname, now) ELSE ""
        path == <<"uploads", filename>>
    IN  /\ served' =
             [endpoint |-> "upload", request |-> req, calls |-> <<>>,
              response |->
                IF ~req.file THEN [status |-> 400, error |-> "No image file provided"]
                ELSE IF ~StartsWithImage(req.mimetype) THEN FilterError
                ELSE IF req.size > FileSizeLimit THEN LimitError
                ELSE [status |-> 200, success |-> TRUE, filename |-> filename,
                      originalname |-> req.originalname, size |-> req.size]]
        /\ disk' =
             IF ~req.file \/ ~StartsWithImage(req.mimetype) THEN disk
             ELSE IF req.size > FileSizeLimit
             THEN (IF removed THEN Unlink(Mkdir(disk), path) ELSE Mkdir(disk))
             ELSE WriteFile(Mkdir(disk), path, req.content)
        /\ UNCHANGED <<analysis, searchVars, env, uiVars>>

(***************************************************************************)
(* GET /api/images.                                                        *)
(***************************************************************************)
\* file.match(/\.(jpg|jpeg|png|gif)$/i)
MatchesImageExtension(file) ==
  \E ext \in {".jpg", ".jpeg", ".png", ".gif"} :
    /\ Len(file) >= Len(ext)
    /\ SubSeq(ToLowerCase(file), Len(file) - Len(ext) + 1, Len(file)) = ext

\* the arrangements of a set of names in a sequence
Orderings(S) ==
  {q \in [1..Cardinality(S) -> S] : \A i, j \in 1..Cardinality(S) : q[i] = q[j] => i = j}

\* one entry of the inventory (the sizes and times of fs.statSync are not kept by disk)
ImageEntry(file) == [filename |-> file, path |-> <<"uploads", file>>]

\* a client asks for the inventory. The entries are sorted by creation time, newest
\* first; disk keeps no times, so the listed names come in any order.
GetImages ==
  /\ \E order \in Orderings({f[2] : f \in {g \in Uploaded(disk) : MatchesImageExtension(g[2])}}) :
       served' =
         [endpoint |-> "images", request |-> [file |-> FALSE], calls |-> <<>>,
          response |->
            IF ~ExistsSync(disk, <<"uploads">>)
            THEN [status |-> 200, images |-> <<>>]
            ELSE [status |-> 200, images |-> [k \in 1..Len(order) |-> ImageEntry(order[k])],
                  count |-> Len(order)]]
  /\ UNCHANGED <<analysis, searchVars, env, disk, uiVars>>

(***************************************************************************)
(* The analyze endpoints from the arrival of the request.                  *)
(***************************************************************************)
PostedFilenames ==
  {Undefined, Str(""), Str("a.png"), Str("food-scan-1.png"), Str("missing.png"),
   Str("../vision-mock.js")}

\* the status the validation of /api/images/analyze answers, 0 when it passes
AnalyzeValidation(d, filename) ==
  IF ~Truthy(filename) THEN 400
  ELSE IF ~ExistsSync(d, PathJoinUploads(filename.str)) THEN 404
  ELSE 0

\* a variant of the validation that asks for the file before the client
OpenAIValidationFileFirst(e, d, filename) ==
  IF ~Truthy(filename) THEN 400
  ELSE IF ~ExistsSync(d, PathJoinUploads(filename.str)) THEN 404
  ELSE IF ~e.openaiClient THEN 503
  ELSE 0

\* the status the validation of /api/images/analyze-openai answers, 0 when it passes
OpenAIValidation(e, d, filename) ==
  IF ~Truthy(filename) THEN 400
  ELSE IF ~e.openaiClient THEN 503
  ELSE IF ~ExistsSync(d, PathJoinUploads(filename.str)) THEN 404
  ELSE 0

ValidationError(status, filename) ==
  CASE status = 400 -> [status |-> 400, error |-> "Filename is required"]
    [] status = 404 -> [status |-> 404, error |-> "Image file not found", filename |-> filename]
    [] status = 503 -> [status |-> 503, error |-> "OpenAI Vision API not available",
                        details |-> "OpenAI API key not configured"]

\* a client posts { filename } to /api/images/analyze
PostAnalyze ==
  \E filename \in PostedFilenames, reply \in VisionAnswers(env.visionClient) :
    LET status == AnalyzeValidation(disk, filename)
    IN  /\ served' =
             IF status # 0
             THEN [endpoint |-> "analyze", request |-> filename, calls |-> <<>>,
                   response |-> ValidationError(status, filename)]
             ELSE [endpoint |-> "analyze", request |-> filename,
                   calls |-> <<[api |-> "vision", client |-> env.visionClient,
                                path |-> PathJoinUploads(filename.str)]>>,
                   response |-> AnalyzeResponse(reply)]
        /\ UNCHANGED <<analysis, searchVars, env, disk, uiVars>>

\* a client posts { filename } to /api/images/analyze-openai
PostAnalyzeOpenAI ==
  \E filename \in PostedFilenames, reply \in SampleGenerativeReplies :
    LET status == OpenAIValidation(env, disk, filename)
    IN  /\ served' =
             IF status # 0
             THEN [endpoint |-> "analyze-openai", request |-> filename, calls |-> <<>>,
                   response |-> ValidationError(status, filename)]
             ELSE [endpoint |-> "analyze-openai", request |-> filename,
                   calls |-> <<[api |-> "readFileSync", path |-> PathJoinUploads(filename.str)],
                               [api |-> "openai", path |-> PathJoinUploads(filename.str)]>>,
                   response |-> AnalyzeOpenAIResponse(reply)]
        /\ UNCHANGED <<analysis, searchVars, env, disk, uiVars>>

(***************************************************************************)
(* The CameraTest component.                                               *)
(***************************************************************************)
\* the useState initial values
InitialUi ==
  [capturedImage |-> Null, uploadStatus |-> "idle", lastUploadedFilename |-> Null,
   analysisStatus |-> "idle", analysisResults |-> Null,
   openaiAnalysisStatus |-> "idle", openaiResults |-> Null,
   productSearchStatus |-> "idle", productResults |-> Null]

\* no call of the component is awaiting a response
\* (save: the captures being uploaded; search: the analyses whose chained search
\* is running, in the order the searches were started)
NothingPending == [save |-> <<>>, analyze |-> 0, openai |-> 0, search |-> <<>>]

\* a sequence without its k-th element
Remove(seq, k) == SubSeq(seq, 1, k - 1) \o SubSeq(seq, k + 1, Len(seq))

\* canvas.toDataURL('image/png') of the n-th capture
DataUrl(n) == "data:image/png;base64," \o NumToString(n)

\* the capture a data URL was made from
CaptureOf(image) == CHOOSE n \in 1..MaxCaptures : image = Str(DataUrl(n))

\* `food-scan-${Date.now()}.png` for an upload of the n-th capture (one name per
\* capture: the instants of two uploads of one capture are not told apart)
FilenameOf(n) == "food-scan-" \o NumToString(n) \o ".png"

\* what an awaited fetch of the component can bring: a rejection or a response
FetchOutcomes(responses) ==
  {[kind |-> "rejects"]} \cup {[kind |-> "response", response |-> r] : r \in responses}

\* response.ok
Ok(outcome) == outcome.kind = "response" /\ outcome.response.status = 200

UploadOutcomes(capture) ==
  FetchOutcomes({LimitError,
                 [status |-> 200, success |-> TRUE, filename |-> FilenameOf(capture)]})

AnalyzeOutcomes ==
  FetchOutcomes({AnalyzeResponse(reply) : reply \in SampleVisionReplies}
                  \cup {ValidationError(404, Str("food-scan-1.png"))})

AnalyzeOpenAIOutcomes ==
  FetchOutcomes({AnalyzeOpenAIResponse(reply) : reply \in SampleGenerativeReplies}
                  \cup {ValidationError(503, Str("food-scan-1.png"))})

SearchOutcomes ==
  FetchOutcomes({[status |-> 400, error |-> "foodItems array is required"],
                 [status |-> 200, success |-> TRUE]})

\* takePhoto with the camera ready: a new capture resets the upload status
takePhoto ==
  LET n == IF Truthy(ui.capturedImage) THEN CaptureOf(ui.capturedImage) + 1 ELSE 1
  IN  /\ n <= MaxCaptures
      /\ ui' = [ui EXCEPT !.capturedImage = Str(DataUrl(n)), !.uploadStatus = "idle"]
      /\ UNCHANGED <<analysis, searchVars, serverVars, pending>>

\* saveImageForProcessing up to its awaits (the button is disabled while uploading)
saveImageForProcessingCalled ==
  /\ Truthy(ui.capturedImage)
  /\ ui.uploadStatus # "uploading"
  /\ Len(pending.save) < MaxPending
  /\ ui' = [ui EXCEPT !.uploadStatus = "uploading"]
  /\ pending' = [pending EXCEPT !.save = Append(@, CaptureOf(ui.capturedImage))]
  /\ UNCHANGED <<analysis, searchVars, serverVars>>

\* saveImageForProcessing from the upload response (or the rejection) on
saveImageForProcessingResumes ==
  /\ \E k \in 1..Len(pending.save) :
       /\ pending' = [pending EXCEPT !.save = Remove(@, k)]
       /\ \E outcome \in UploadOutcomes(pending.save[k]) :
            ui' = IF Ok(outcome)
                  THEN [ui EXCEPT !.uploadStatus = "success",
                                  !.lastUploadedFilename = Str(outcome.response.filename)]
                  ELSE [ui EXCEPT !.uploadStatus = "error"]
  /\ UNCHANGED <<analysis, searchVars, serverVars>>

\* the synchronous start of searchProducts, called from the analysis continuations
SearchCalled(u) == [u EXCEPT !.productSearchStatus = "searching", !.productResults = Null]

\* analyzeImage up to its await (the button is shown once an image is captured and
\* is disabled while analyzing)
analyzeImageCalled ==
  /\ Truthy(ui.capturedImage)
  /\ ui.analysisStatus # "analyzing"
  /\ Len(pending.search) < MaxPending
  /\ IF ~Truthy(ui.lastUploadedFilename)
     THEN /\ ui' = [ui EXCEPT !.analysisStatus = "error"]
          /\ pending' = pending
     ELSE /\ ui' = [ui EXCEPT !.analysisStatus = "analyzing", !.analysisResults = Null]
          /\ pending' = [pending EXCEPT !.analyze = 1]
  /\ UNCHANGED <<analysis, searchVars, serverVars>>

\* analyzeImage from the analysis response (or the rejection) to the await of the
\* chained searchProducts
analyzeImageResumes ==
  /\ pending.analyze = 1
  /\ \E outcome \in AnalyzeOutcomes :
       IF Ok(outcome)
       THEN LET done == [ui EXCEPT !.analysisResults = outcome.response,
                                   !.analysisStatus = "success"]
            IN  IF ChainsSearch(outcome.response)
                THEN /\ ui' = SearchCalled(done)
                     /\ pending' = [pending EXCEPT !.analyze = 0, !.search = Append(@, "google")]
                ELSE /\ ui' = done
                     /\ pending' = [pending EXCEPT !.analyze = 0]
       ELSE /\ ui' = [ui EXCEPT !.analysisStatus = "error"]
            /\ pending' = [pending EXCEPT !.analyze = 0]
  /\ UNCHANGED <<analysis, searchVars, serverVars>>

\* analyzeImageOpenAI up to its await
analyzeImageOpenAICalled ==
  /\ Truthy(ui.capturedImage)
  /\ ui.openaiAnalysisStatus # "analyzing"
  /\ Len(pending.search) < MaxPending
  /\ IF ~Truthy(ui.lastUploadedFilename)
     THEN /\ ui' = [ui EXCEPT !.openaiAnalysisStatus = "error"]
          /\ pending' = pending
     ELSE /\ ui' = [ui EXCEPT !.openaiAnalysisStatus = "analyzing", !.openaiResults = Null]
          /\ pending' = [pending EXCEPT !.openai = 1]
  /\ UNCHANGED <<analysis, searchVars, serverVars>>

\* analyzeImageOpenAI from the analysis response (or the rejection) on
analyzeImageOpenAIResumes ==
  /\ pending.openai = 1
  /\ \E outcome \in AnalyzeOpenAIOutcomes :
       IF Ok(outcome)
       THEN LET done == [ui EXCEPT !.openaiResults = outcome.response,
                                   !.openaiAnalysisStatus = "success"]
            IN  IF ChainsSearch(outcome.response)
                THEN /\ ui' = SearchCalled(done)
                     /\ pending' = [pending EXCEPT !.openai = 0, !.search = Append(@, "openai")]
                ELSE /\ ui' = done
                     /\ pending' = [pending EXCEPT !.openai = 0]
       ELSE /\ ui' = [ui EXCEPT !.openaiAnalysisStatus = "error"]
            /\ pending' = [pending EXCEPT !.openai = 0]
  /\ UNCHANGED <<analysis, searchVars, serverVars>>

\* searchProducts from the search response (or the rejection) on
searchProductsResumes ==
  /\ \E k \in 1..Len(pending.search) :
       pending' = [pending EXCEPT !.search = Remove(@, k)]
  /\ \E outcome \in SearchOutcomes :
       ui' = IF Ok(outcome)
             THEN [ui EXCEPT !.productResults = outcome.response,
                             !.productSearchStatus = "success"]
             ELSE [ui EXCEPT !.productSearchStatus = "error"]
  /\ UNCHANGED <<analysis, searchVars, serverVars>>

(***************************************************************************)
(* Specifications.                                                         *)
(***************************************************************************)
Init ==
  /\ analysis = NoAnalysis
  /\ searchOrigin = "none"
  /\ searchBody = Undefined
  /\ pc = "idle"
  /\ itemIdx = 0
  /\ termIdx = 0
  /\ productResults = <<>>
  /\ queries = <<>>
  /\ replies = <<>>
  /\ searchResp = NoResponse
  /\ env = [googleCredentials |-> TRUE, visionClient |-> "google",
            openaiKey |-> TRUE, openaiClient |-> TRUE]
  /\ disk = AppFiles
  /\ served = NoRequest
  /\ ui = InitialUi
  /\ pending = NothingPending

\* the pipeline: direct searches, and analyses chained into searches
Next == PostSearch \/ FetchReturn \/ analyzeImage \/ analyzeImageOpenAI \/ searchProducts

Spec == Init /\ [][Next]_vars

\* the pipeline when every awaited product-database call settles: the fetch and the
\* response.json() of the handler resolve or reject, so its continuation runs
SpecLive == Init /\ [][Next]_vars /\ WF_vars(FetchReturn)

\* the two analyze endpoints over every modelled provider answer
NextNormalize == AnalyzeVision \/ AnalyzeOpenAI

SpecNormalize == Init /\ [][NextNormalize]_vars

\* the server from its start-up: uploads and analyze requests in any order
InitServer ==
  /\ analysis = NoAnalysis
  /\ searchOrigin = "none"
  /\ searchBody = Undefined
  /\ pc = "idle"
  /\ itemIdx = 0
  /\ termIdx = 0
  /\ productResults = <<>>
  /\ queries = <<>>
  /\ replies = <<>>
  /\ searchResp = NoResponse
  /\ env \in Envs
  /\ disk = AppFiles
  /\ served = NoRequest
  /\ ui = InitialUi
  /\ pending = NothingPending

NextServer == PostUpload \/ GetImages \/ PostAnalyze \/ PostAnalyzeOpenAI

SpecServer == InitServer /\ [][NextServer]_vars

\* the component: the user's presses and the responses in any order
NextUI ==
  \/ takePhoto
  \/ saveImageForProcessingCalled
  \/ saveImageForProcessingResumes
  \/ analyzeImageCalled
  \/ analyzeImageResumes
  \/ analyzeImageOpenAICalled
  \/ analyzeImageOpenAIResumes
  \/ searchProductsResumes

SpecUI == Init /\ [][NextUI]_vars

(***************************************************************************)
(* Properties of the product search.                                       *)
(***************************************************************************)
\* the items of a posted body that passed validation
PostedItems == Get(searchBody, "foodItems").arr

\* a request was posted with a non-empty list of FoodItem objects
PostedFoodItems ==
  /\ searchOrigin # "none"
  /\ IsArr(Get(searchBody, "foodItems"))
  /\ Len(PostedItems) > 0
  /\ \A i \in 1..Len(PostedItems) : IsObj(PostedItems[i])

\* the queries issued for item i, and what is known of their answers
QueryIdx(i) == {k \in 1..Len(queries) : queries[k].item = i}
Answered(k) == k <= Len(replies)
Threw(k) == Answered(k) /\ replies[k].kind # "json"
Found(k) ==
  /\ Answered(k)
  /\ replies[k].kind = "json"
  /\ "products" \in DOMAIN replies[k].data.obj
  /\ Len(replies[k].data.obj.products.arr) > 0
RecordsOf(k) == replies[k].data.obj.products.arr

ItemFailed(i) == \E k \in QueryIdx(i) : Threw(k)

\* the entry of item i when none of its lookups fails: the answer of the term that
\* yielded products, the empty result otherwise
NormalEntry(i) ==
  IF \E k \in QueryIdx(i) : Found(k)
  THEN LET k == CHOOSE j \in QueryIdx(i) : Found(j)
       IN  BestResult(PostedItems[i], queries[k].term, RecordsOf(k))
  ELSE EmptyResult(PostedItems[i])

\* C1: for a non-empty list of FoodItems, whatever lookups throw, the handler answers
\* with success and one entry per item; a failing item's entry has products = [] and
\* an error field, every other entry is the one its own lookups yield
C1_BatchSurvivesFailures ==
  (pc = "done" /\ PostedFoodItems) =>
    /\ searchResp.status = 200
    /\ Len(searchResp.searchResults) = Len(PostedItems)
    /\ \A i \in 1..Len(PostedItems) :
         IF ItemFailed(i)
         THEN /\ searchResp.searchResults[i].products = <<>>
              /\ "error" \in DOMAIN searchResp.searchResults[i]
         ELSE searchResp.searchResults[i] = NormalEntry(i)

\* a finished batch in which one item's lookup threw and another item found products
C1_Witness ==
  /\ pc = "done"
  /\ PostedFoodItems
  /\ \E i, j \in 1..Len(PostedItems) :
       /\ i < j
       /\ ItemFailed(i)
       /\ ~ItemFailed(j)
       /\ Len(searchResp.searchResults[j].products) > 0

\* the search terms of an item as the claim states them: its searchTerms list when
\* it carries one, its name alone when it has no searchTerms field
ClaimedTerms(foodItem) ==
  IF "searchTerms" \in DOMAIN foodItem.obj
  THEN foodItem.obj.searchTerms.arr
  ELSE <<foodItem.obj.name>>

\* the query indices of item i in the order of issue
RECURSIVE SortedIdx(_)
SortedIdx(S) ==
  IF S = {} THEN <<>>
  ELSE LET m == CHOOSE x \in S : \A y \in S : x <= y
       IN  <<m>> \o SortedIdx(S \ {m})

\* id: product.id || product._id
RecordId(product) ==
  IF "id" \in DOMAIN product.obj THEN product.obj.id ELSE product.obj._id

\* C2: the terms of each item are queried strictly in list order (the name alone
\* for an item without a searchTerms field); a term that yields no product is followed
\* by the next term; the first term that yields a product is the last one queried,
\* is recorded as searchTerm, and the products are those of its response only
C2_FirstMatchWins ==
  PostedFoodItems =>
    \A i \in 1..Len(PostedItems) :
      LET idx == SortedIdx(QueryIdx(i))
          terms == ClaimedTerms(PostedItems[i])
      IN  /\ Len(idx) <= Len(terms)
          /\ \A n \in 1..Len(idx) :
               /\ queries[idx[n]].term = terms[n]
               /\ (Found(idx[n]) \/ Threw(idx[n])) => n = Len(idx)
               /\ (Answered(idx[n]) /\ ~Found(idx[n]) /\ ~Threw(idx[n]) /\ n < Len(terms))
                    => n < Len(idx)
               /\ (Found(idx[n]) /\ i <= Len(productResults)) =>
                    /\ productResults[i].searchTerm = terms[n]
                    /\ Len(productResults[i].products) > 0
                    /\ Len(productResults[i].products) <= Len(RecordsOf(idx[n]))
                    /\ \A m \in 1..Len(productResults[i].products) :
                         productResults[i].products[m].id = RecordId(RecordsOf(idx[n])[m])

\* an item whose first term found nothing and whose second term found products
C2_Witness ==
  /\ pc = "done"
  /\ PostedFoodItems
  /\ \E i \in 1..Len(PostedItems) :
       LET idx == SortedIdx(QueryIdx(i))
       IN  /\ Len(idx) = 2
           /\ ~Found(idx[1])
           /\ Found(idx[2])
           /\ queries[idx[1]].term # queries[idx[2]].term
           /\ productResults[i].searchTerm = PostedItems[i].obj.searchTerms.arr[2]

\* the catalogue records in which the inference finds an organic / a fair-trade
\* signal: p2 "Organic, EU Organic" with en:organic, p4 "BIO, Max Havelaar";
\* p3 en:fair-trade (its tag en:Organic is not lower case and goes unrecognised)
OrganicRecords == {Catalog[2], Catalog[4]}
FairTradeRecords == {Catalog[3], Catalog[4]}

\* the status the claim expects from the FoodItem's own status and the record
ClaimedStatus(own, signal, certified) ==
  IF own # Str("unknown") THEN own
  ELSE IF signal THEN Str(certified) ELSE Str("unknown")

\* the answered query that built entry i, if a term of item i found products
BuiltFrom(i) == CHOOSE k \in QueryIdx(i) : Found(k)
HasMatches(i) == i <= Len(productResults) /\ \E k \in QueryIdx(i) : Found(k)

C4_MissingStatusIsInferred ==
  (PostedFoodItems /\ searchOrigin = "chained") =>
    \A i \in 1..Len(PostedItems) :
      HasMatches(i) =>
        \A m \in 1..Len(productResults[i].products) :
          LET own == PostedItems[i].obj
              record == RecordsOf(BuiltFrom(i))[m]
              match == productResults[i].products[m]
          IN  /\ "organicStatus" \notin DOMAIN own =>
                   match.organicStatus =
                     ClaimedStatus(Str("unknown"), record \in OrganicRecords,
                                   "certified_organic")
              /\ "fairTradeStatus" \notin DOMAIN own =>
                   match.fairTradeStatus =
                     ClaimedStatus(Str("unknown"), record \in FairTradeRecords,
                                   "certified_fair_trade")

(***************************************************************************)
(* Properties of the normalization of provider answers.                    *)
(***************************************************************************)
\* the generative provider answered with content (it did not fail)
GenerativeAnswered ==
  /\ analysis.endpoint = "analyze-openai"
  /\ analysis.reply.kind = "content"

\* the JSON document of the provider's answer, when the answer is JSON
AnsweredDoc == ParseJSON(analysis.reply.text)

\* the answer is JSON whose top level holds a products array
AnsweredProducts ==
  /\ GenerativeAnswered
  /\ AnsweredDoc.ok
  /\ IsObj(AnsweredDoc.value)
  /\ "products" \in DOMAIN AnsweredDoc.value.obj
  /\ IsArr(AnsweredDoc.value.obj.products)

\* C5: whatever the generative provider answers (multi-product JSON, JSON of any
\* other shape or type, prose), normalization does not raise: the request is
\* answered with success and a (possibly empty) FoodItem list
C5_NormalizationNeverRaises ==
  GenerativeAnswered =>
    /\ analysis.response.status = 200
    /\ Len(analysis.response.foodItems) >= 0

\* C6: when the parsed answer has a products array, the FoodItem list has one item
\* per entry, in order, each with its entry's name; neither the legacy foodItems
\* array nor the heuristic extraction is consulted, also for an empty array
C6_OneItemPerProduct ==
  AnsweredProducts =>
    LET products == AnsweredDoc.value.obj.products.arr
    IN  /\ analysis.response.status = 200
        /\ Len(analysis.response.foodItems) = Len(products)
        /\ \A i \in 1..Len(products) :
             Get(analysis.response.foodItems[i], "name") = Get(products[i], "name")

\* a products array of two entries with different names, answered in order
C6_Witness ==
  /\ AnsweredProducts
  /\ Len(AnsweredDoc.value.obj.products.arr) = 2
  /\ Get(AnsweredDoc.value.obj.products.arr[1], "name")
       # Get(AnsweredDoc.value.obj.products.arr[2], "name")
  /\ Len(analysis.response.foodItems) = 2
  /\ Get(analysis.response.foodItems[1], "name")
       = Get(AnsweredDoc.value.obj.products.arr[1], "name")

\* C7: when the answer is not JSON, the FoodItem list of the response has at most 5
\* items and the item at 0-based position i has confidence max(60, 95 - 10 i)
C7_HeuristicConfidence ==
  (GenerativeAnswered /\ ~AnsweredDoc.ok) =>
    /\ analysis.response.status = 200
    /\ Len(analysis.response.foodItems) <= 5
    /\ \A k \in 1..Len(analysis.response.foodItems) :
         /\ Get(analysis.response.foodItems[k], "confidence")
              = Num(IF 95 - 10 * (k - 1) >= 60 THEN 95 - 10 * (k - 1) ELSE 60)
         /\ Get(analysis.response.foodItems[k], "confidence").num >= 60
         /\ k > 1 => Get(analysis.response.foodItems[k], "confidence").num
                       <= Get(analysis.response.foodItems[k - 1], "confidence").num

\* a prose answer from which more than 5 names are extracted: 5 items are returned,
\* the last with the floor confidence 60
C7_Witness ==
  /\ GenerativeAnswered
  /\ ~AnsweredDoc.ok
  /\ Len(PatternItems(analysis.reply.text, ToLowerCase(analysis.reply.text), 1)) > 5
  /\ Len(analysis.response.foodItems) = 5
  /\ Get(analysis.response.foodItems[5], "confidence") = Num(60)

\* the structured annotator answered with annotation sets
VisionAnswered ==
  /\ analysis.endpoint = "analyze"
  /\ analysis.reply.kind = "annotations"

AnsweredLabels ==
  IF IsArr(analysis.reply.labelAnnotations) THEN analysis.reply.labelAnnotations.arr ELSE <<>>

AnsweredObjects ==
  IF IsArr(analysis.reply.localizedObjectAnnotations)
  THEN analysis.reply.localizedObjectAnnotations.arr ELSE <<>>

\* c is score x 100 rounded to the nearest integer (halves up), score in thousandths
IsRoundedPercent(c, score) == 10 * c - 5 <= score /\ score < 10 * c + 5

\* the positions of the annotations whose score is above a threshold (in thousandths)
Above(annotations, threshold) ==
  {i \in 1..Len(annotations) :
     "score" \in DOMAIN annotations[i].obj /\ annotations[i].obj.score.num > threshold}

\* the position of annotation i among the annotations of the set S
Rank(S, i) == Cardinality({j \in S : j <= i})

\* C8: the foodItems of POST /images/analyze are exactly the labels with score > 0.6,
\* in their order, each with name = description, confidence = round(score x 100) and
\* category 'detected_food'
C8_LabelsAboveThreshold ==
  VisionAnswered =>
    LET kept == Above(AnsweredLabels, 600)
        foodItems == analysis.response.foodItems
    IN  /\ analysis.response.status = 200
        /\ Len(foodItems) = Cardinality(kept)
        /\ \A i \in kept :
             LET item == foodItems[Rank(kept, i)].obj
             IN  /\ DOMAIN item = {"name", "confidence", "category"}
                 /\ item.name = AnsweredLabels[i].obj.description
                 /\ IsRoundedPercent(item.confidence.num, AnsweredLabels[i].obj.score.num)
                 /\ item.category = Str("detected_food")

\* a label at 0.6 is dropped and a later label at 0.605 is kept with confidence 61
C8_Witness ==
  /\ VisionAnswered
  /\ Len(AnsweredLabels) = 2
  /\ Get(AnsweredLabels[1], "score") = Num(600)
  /\ Get(AnsweredLabels[2], "score") = Num(605)
  /\ Len(analysis.response.foodItems) = 1
  /\ Get(analysis.response.foodItems[1], "confidence") = Num(61)

(***************************************************************************)
(* Properties of the pipeline: analysis, then the chained search.          *)
(***************************************************************************)
\* the UI chained a search after an analysis with the structured annotator
ChainedFromVision == VisionAnswered /\ searchOrigin = "chained"

\* C9 as stated: every localized object with score > 0.5 is a FoodItem, with
\* confidence = round(score x 100), of the list handed on to the Product Matcher
C9_ObjectsHandedToMatcher ==
  ChainedFromVision =>
    \A i \in Above(AnsweredObjects, 500) :
      \E k \in 1..Len(PostedItems) :
        /\ Get(PostedItems[k], "name") = AnsweredObjects[i].obj.name
        /\ IsRoundedPercent(Get(PostedItems[k], "confidence").num,
                            AnsweredObjects[i].obj.score.num)

\* C9 (amended): the localized objects with score > 0.5 are normalized like labels
\* (name, confidence = round(score x 100)) but with category 'detected_object' into
\* the separate results.objects list, in order, objects at or below 0.5 excluded;
\* they are not FoodItems: the foodItems list holds the labels only, and the chained
\* search posts exactly that list
C9_ObjectsListedApart ==
  VisionAnswered =>
    LET kept == Above(AnsweredObjects, 500)
        objects == analysis.response.objects
        foodItems == analysis.response.foodItems
    IN  /\ Len(objects) = Cardinality(kept)
        /\ \A i \in kept :
             LET entry == objects[Rank(kept, i)].obj
             IN  /\ entry.name = AnsweredObjects[i].obj.name
                 /\ IsRoundedPercent(entry.confidence.num, AnsweredObjects[i].obj.score.num)
                 /\ entry.category = Str("detected_object")
        /\ Len(foodItems) = Cardinality(Above(AnsweredLabels, 600))
        /\ \A k \in 1..Len(foodItems) : Get(foodItems[k], "category") = Str("detected_food")
        /\ searchOrigin = "chained" =>
             /\ Len(PostedItems) = Len(foodItems)
             /\ \A k \in 1..Len(foodItems) :
                  /\ Get(PostedItems[k], "name") = Get(foodItems[k], "name")
                  /\ Get(PostedItems[k], "confidence") = Get(foodItems[k], "confidence")
                  /\ Get(PostedItems[k], "category") = Str("detected_food")

\* a chained search after an analysis that kept one of two objects: the kept object
\* is in results.objects and not among the posted items
C9_Witness ==
  /\ ChainedFromVision
  /\ Len(AnsweredObjects) = 2
  /\ Len(analysis.response.objects) = 1
  /\ Len(PostedItems) = 1
  /\ Get(PostedItems[1], "confidence") # Get(analysis.response.objects[1], "confidence")

\* C10: for each entry of the products array the FoodItem's searchTerms is the
\* entry's openFoodFactsSearchTerms when that list is non-empty and [name] when it
\* is absent or empty, so the chained search issues at least one query per item
C10_SearchTermsNeverEmpty ==
  /\ (AnsweredProducts /\ analysis.response.status = 200) =>
       \A i \in 1..Len(analysis.response.foodItems) :
         LET entry == AnsweredDoc.value.obj.products.arr[i]
             given == Get(entry, "openFoodFactsSearchTerms")
         IN  Get(analysis.response.foodItems[i], "searchTerms") =
               IF IsArr(given) /\ Len(given.arr) > 0 THEN given
               ELSE Arr(<<Get(entry, "name")>>)
  /\ (AnsweredProducts /\ searchOrigin = "chained" /\ pc = "done") =>
       \A i \in 1..Len(PostedItems) : QueryIdx(i) # {}

(***************************************************************************)
(* Properties of the product search: empty results, counts, validation.    *)
(***************************************************************************)
\* every query issued for item i was answered without a failure and without a record
NothingFound(i) == \A k \in QueryIdx(i) : Answered(k) /\ ~Threw(k) /\ ~Found(k)

\* C11: when no search term of a FoodItem yields a product record, the item's entry
\* has an empty product list, no error field, and the item's name as its searchTerm
C11_EmptyResultKeepsName ==
  (pc = "done" /\ PostedFoodItems /\ searchResp.status = 200) =>
    \A i \in 1..Len(PostedItems) :
      NothingFound(i) =>
        /\ searchResp.searchResults[i].products = <<>>
        /\ "error" \notin DOMAIN searchResp.searchResults[i]
        /\ searchResp.searchResults[i].searchTerm = Get(PostedItems[i], "name")

\* an item whose two terms were both queried in vain: its entry names the item, which
\* is neither of the terms
C11_Witness ==
  /\ pc = "done"
  /\ PostedFoodItems
  /\ \E i \in 1..Len(PostedItems) :
       /\ Cardinality(QueryIdx(i)) = 2
       /\ NothingFound(i)
       /\ searchResp.searchResults[i].searchTerm = Get(PostedItems[i], "name")
       /\ \A k \in QueryIdx(i) : queries[k].term # Get(PostedItems[i], "name")

\* C12: a request with a non-empty list of FoodItems is answered with one entry per
\* item, entry i carrying item i's confidence, and totalSearches equal to the number
\* of items, whether the lookups found records, found nothing or failed
C12_OneEntryPerItem ==
  (pc = "done" /\ PostedFoodItems) =>
    /\ searchResp.status = 200
    /\ Len(searchResp.searchResults) = Len(PostedItems)
    /\ searchResp.totalSearches = Len(PostedItems)
    /\ \A i \in 1..Len(PostedItems) :
         searchResp.searchResults[i].detectedConfidence = Get(PostedItems[i], "confidence")

\* two items of different confidence, the first failed and the second found nothing
C12_Witness ==
  /\ pc = "done"
  /\ PostedFoodItems
  /\ Len(PostedItems) = 2
  /\ Get(PostedItems[1], "confidence") # Get(PostedItems[2], "confidence")
  /\ ItemFailed(1)
  /\ NothingFound(2)
  /\ searchResp.totalSearches = 2

\* the body has no foodItems, or foodItems is not an array, or it is an empty array
FoodItemsMissingOrEmpty ==
  \/ ~IsObj(searchBody)
  \/ "foodItems" \notin DOMAIN searchBody.obj
  \/ ~IsArr(searchBody.obj.foodItems)
  \/ Len(searchBody.obj.foodItems.arr) = 0

\* C13: a search request whose foodItems is missing, not an array or an empty array
\* is answered 400 and no query is sent to the product database
C13_InvalidBodyRejected ==
  (searchOrigin # "none" /\ FoodItemsMissingOrEmpty) =>
    /\ pc = "done"
    /\ searchResp.status = 400
    /\ queries = <<>>
    /\ replies = <<>>

\* an empty foodItems array was posted and refused
C13_Witness ==
  /\ searchOrigin = "direct"
  /\ searchBody = Obj([foodItems |-> Arr(<<>>)])
  /\ searchResp.status = 400
  /\ queries = <<>>

(***************************************************************************)
(* Properties of the upload and analyze endpoints.                         *)
(***************************************************************************)
\* the request served last, by endpoint
ServedUpload == served.endpoint = "upload"
ServedAnalyze == served.endpoint = "analyze"
ServedAnalyzeOpenAI == served.endpoint = "analyze-openai"

\* C14: with the provider's credentials missing no analyze request is answered with
\* a success response: the provider is reported unavailable by an error response
C14_MissingCredentialsNeverSucceed ==
  /\ (ServedAnalyze /\ ~env.googleCredentials) => served.response.status # 200
  /\ (ServedAnalyzeOpenAI /\ ~env.openaiKey) => served.response.status # 200

\* the part of an upload request is not an image, or is larger than 10 MB
NotImageOrTooLarge ==
  /\ served.request.file
  /\ \/ ~StartsWithImage(served.request.mimetype)
     \/ served.request.size > 10 * 1024 * 1024

\* C15: an upload whose content type is not an image type, or whose payload exceeds
\* 10 MB, is answered 400 and never with a success response carrying a filename
C15_UploadRejectedWith400 ==
  (ServedUpload /\ NotImageOrTooLarge) =>
    /\ served.response.status = 400
    /\ "filename" \notin DOMAIN served.response

\* the names under which uploads are stored
UploadedNames == {f[2] : f \in Uploaded(disk)}

\* C16: /api/images/analyze answers 404, and calls no annotator, for every filename
\* that does not name a file stored by a previous upload
C16_UnknownFilenameIs404 ==
  (ServedAnalyze /\ IsStr(served.request) /\ served.request.str # ""
     /\ served.request.str \notin UploadedNames) =>
    /\ served.response.status = 404
    /\ served.calls = <<>>

\* C17: /api/images/analyze-openai with a filename answers 503 whenever the
\* generative client is unconfigured, whether the file exists or not, and then
\* neither reads the file nor calls the provider
C17_UnconfiguredIs503 ==
  (ServedAnalyzeOpenAI /\ Truthy(served.request) /\ ~env.openaiClient) =>
    /\ served.response.status = 503
    /\ served.calls = <<>>

\* without a client, a request naming a file that no upload stored is answered 503
C17_Witness ==
  /\ ServedAnalyzeOpenAI
  /\ ~env.openaiClient
  /\ served.request = Str("missing.png")
  /\ ~ExistsSync(disk, <<"uploads", "missing.png">>)
  /\ \E f \in Uploaded(disk) : TRUE
  /\ served.response.status = 503

\* C20: an uploaded file is write-once: no later upload replaces the content stored
\* under its name
C20_WriteOnce ==
  [][\A f \in Uploaded(disk) : f \in DOMAIN disk' => disk'[f] = disk[f]]_vars

(***************************************************************************)
(* Properties of the component's stage statuses.                           *)
(***************************************************************************)
\* a status keeps its value or moves idle -> busy -> {success, error} -> busy
Allowed(old, new, busy) ==
  \/ new = old
  \/ old = "idle" /\ new = busy
  \/ old = busy /\ new \in {"success", "error"}
  \/ old \in {"success", "error"} /\ new = busy

\* C18: each stage status (upload, analyze, OpenAI analyze, product search) changes
\* only along idle -> in progress -> {success, error} and from success or error back
\* to in progress
C18_StageTransitions ==
  [][/\ Allowed(ui.uploadStatus, ui'.uploadStatus, "uploading")
     /\ Allowed(ui.analysisStatus, ui'.analysisStatus, "analyzing")
     /\ Allowed(ui.openaiAnalysisStatus, ui'.openaiAnalysisStatus, "analyzing")
     /\ Allowed(ui.productSearchStatus, ui'.productSearchStatus, "searching")]_vars

\* the results of an analysis hold a non-empty FoodItem list
HasFoodItems(results) ==
  /\ results # Null
  /\ "foodItems" \in DOMAIN results
  /\ Len(results.foodItems) > 0

\* in a step that ends an analysis with status `after` and results `results`, a
\* search is started exactly when the analysis succeeded with a non-empty list;
\* otherwise the search status and the searches in flight are untouched
ChainedIff(before, after, results) ==
  (after # before /\ after \in {"success", "error"}) =>
    IF after = "success" /\ HasFoodItems(results)
    THEN /\ Len(pending'.search) = Len(pending.search) + 1
         /\ ui'.productSearchStatus = "searching"
    ELSE /\ pending'.search = pending.search
         /\ ui'.productSearchStatus = ui.productSearchStatus

\* C19: a product search is started automatically after an analysis if and only if
\* the analysis reached success and its FoodItem list is non-empty; a failed
\* analysis, or a successful one with an empty list, leaves the search status alone
C19_ChainOnlyOnFoodItems ==
  [][/\ ChainedIff(ui.analysisStatus, ui'.analysisStatus, ui'.analysisResults)
     /\ ChainedIff(ui.openaiAnalysisStatus, ui'.openaiAnalysisStatus, ui'.openaiResults)]_vars

\* an analysis succeeded with food items and its chained search is in flight, while
\* the other analysis succeeded with an empty list and started none
C19_Witness ==
  /\ ui.analysisStatus = "success"
  /\ HasFoodItems(ui.analysisResults)
  /\ ui.productSearchStatus = "searching"
  /\ Len(pending.search) = 1
  /\ ui.openaiAnalysisStatus = "success"
  /\ ~HasFoodItems(ui.openaiResults)

(***************************************************************************)
(* Properties of the product search: the cap on matches, failing lookups.  *)
(***************************************************************************)
\* C21: every SearchResult holds at most 3 ProductMatches; when the winning term's
\* response has n records the matches are built from its first min(n, 3) records,
\* in the order of the response
C21_AtMostThreeMatches ==
  PostedFoodItems =>
    \A i \in 1..Len(productResults) :
      /\ Len(productResults[i].products) <= 3
      /\ HasMatches(i) =>
           LET records == RecordsOf(BuiltFrom(i))
               products == productResults[i].products
           IN  /\ Len(products) = (IF Len(records) < 3 THEN Len(records) ELSE 3)
               /\ \A m \in 1..Len(products) : products[m].id = RecordId(records[m])

\* an entry built from a response of four records holds the first three of them
C21_Witness ==
  /\ PostedFoodItems
  /\ \E i \in 1..Len(productResults) :
       /\ HasMatches(i)
       /\ Len(RecordsOf(BuiltFrom(i))) = 4
       /\ Len(productResults[i].products) = 3
       /\ productResults[i].products[3].id = RecordId(RecordsOf(BuiltFrom(i))[3])
       /\ productResults[i].products[1].id # productResults[i].products[3].id

\* C28: when the database call for a term of an item throws, no later term of the
\* item is queried; the item's entry is {searchTerm = name, detectedConfidence,
\* products = [], error}, without the certification summary; the next item is
\* looked up all the same
C28_ThrowEndsTheItem ==
  PostedFoodItems =>
    \A i \in 1..Len(PostedItems) :
      \A k \in QueryIdx(i) :
        Threw(k) =>
          /\ \A j \in QueryIdx(i) : j <= k
          /\ i <= Len(productResults)
          /\ DOMAIN productResults[i] = {"searchTerm", "detectedConfidence", "products", "error"}
          /\ productResults[i].searchTerm = Get(PostedItems[i], "name")
          /\ productResults[i].products = <<>>
          /\ (i < Len(PostedItems) /\ ClaimedTerms(PostedItems[i + 1]) # <<>>) =>
               QueryIdx(i + 1) # {}

\* the first of two terms of the first item threw, its second term was never queried,
\* and the second item found products
C28_Witness ==
  /\ pc = "done"
  /\ PostedFoodItems
  /\ Len(PostedItems) = 2
  /\ Len(ClaimedTerms(PostedItems[1])) = 2
  /\ Cardinality(QueryIdx(1)) = 1
  /\ ItemFailed(1)
  /\ "organicStatus" \in DOMAIN PostedItems[1].obj
  /\ HasMatches(2)

(***************************************************************************)
(* Properties of the FoodItems of an analysis: confidence, distinct names. *)
(***************************************************************************)
\* C22: on the products-array path a FoodItem's confidence is its entry's own
\* confidence for every value in 0..100 the entry supplies, and 80 stands in only
\* for an entry without a confidence field
C22_ConfidenceCopied ==
  AnsweredProducts =>
    LET products == AnsweredDoc.value.obj.products.arr
        foodItems == analysis.response.foodItems
    IN  \A i \in 1..Len(products) :
          IsObj(products[i]) =>
            IF "confidence" \in DOMAIN products[i].obj
            THEN (/\ IsNum(products[i].obj.confidence)
                  /\ products[i].obj.confidence.num \in 0..100)
                    => Get(foodItems[i], "confidence") = products[i].obj.confidence
            ELSE Get(foodItems[i], "confidence") = Num(80)

\* the analysis answered with its FoodItem list
AnalysisSucceeded ==
  /\ analysis.endpoint \in {"analyze", "analyze-openai"}
  /\ analysis.response.status = 200

\* C23: every FoodItem returned by either analyze endpoint has an integer
\* confidence between 0 and 100, on every normalization path
C23_ConfidenceInRange ==
  AnalysisSucceeded =>
    \A i \in 1..Len(analysis.response.foodItems) :
      LET confidence == Get(analysis.response.foodItems[i], "confidence")
      IN  IsNum(confidence) /\ confidence.num \in 0..100

\* C25: no two FoodItems returned by one analysis carry the same name
C25_NamesAreDistinct ==
  AnalysisSucceeded =>
    \A i, j \in 1..Len(analysis.response.foodItems) :
      i < j => Get(analysis.response.foodItems[i], "name")
                 # Get(analysis.response.foodItems[j], "name")

(***************************************************************************)
(* Properties of the certification inference.                              *)
(***************************************************************************)
\* the record's label text or one of its label tags holds the word in some letter case
HoldsAnyCase(record, words) ==
  LET labels == IF "labels" \in DOMAIN record.obj THEN record.obj.labels.str ELSE ""
      tags == IF "labels_tags" \in DOMAIN record.obj THEN record.obj.labels_tags.arr ELSE <<>>
  IN  \E w \in words :
        \/ Includes(ToLowerCase(labels), w)
        \/ \E t \in 1..Len(tags) : Includes(ToLowerCase(tags[t].str), w)

\* C24: a record whose labels or labels_tags hold an organic (fair-trade) keyword
\* or tag in any letter case is inferred 'certified_organic' ('certified_fair_trade')
C24_InferenceIgnoresCase ==
  PostedFoodItems =>
    \A i \in 1..Len(PostedItems) :
      HasMatches(i) =>
        \A m \in 1..Len(productResults[i].products) :
          LET record == RecordsOf(BuiltFrom(i))[m]
              match == productResults[i].products[m]
          IN  /\ HoldsAnyCase(record, {"organic"}) =>
                   match.organicStatusOFF = Str("certified_organic")
              /\ HoldsAnyCase(record, {"fair-trade", "fairtrade"}) =>
                   match.fairTradeStatusOFF = Str("certified_fair_trade")

(***************************************************************************)
(* Properties of the component: what is analysed, overlapping searches.    *)
(***************************************************************************)
\* the step sends an analyze request: the status of an analysis becomes 'analyzing'
SendsAnalyzeRequest ==
  \/ ui.analysisStatus # "analyzing" /\ ui'.analysisStatus = "analyzing"
  \/ ui.openaiAnalysisStatus # "analyzing" /\ ui'.openaiAnalysisStatus = "analyzing"

\* C26: the filename of an analyze request (lastUploadedFilename when the button
\* is pressed) is the upload of the image shown as captured, so no request is sent
\* between a new photo and its successful upload
C26_AnalyzesTheCapturedImage ==
  [][SendsAnalyzeRequest =>
       ui.lastUploadedFilename = Str(FilenameOf(CaptureOf(ui.capturedImage)))]_vars

\* the step settles one of two running searches, one chained by each analysis
SettlesOneOfTwo(k) ==
  /\ Len(pending.search) = 2
  /\ pending.search[1] # pending.search[2]
  /\ pending'.search = Remove(pending.search, k)

\* C27: when the searches chained by the two analyses overlap, the search status is
\* 'searching' for as long as one of them is running, and the outcome of the one
\* started first does not replace that of the one started later
C27_LatestSearchWins ==
  [][/\ (SettlesOneOfTwo(1) \/ SettlesOneOfTwo(2)) => ui'.productSearchStatus = "searching"
     /\ (SettlesOneOfTwo(1) /\ ~SettlesOneOfTwo(2)) => ui'.productResults = ui.productResults]_vars

(***************************************************************************)
(* Properties of the inventory of uploads.                                 *)
(***************************************************************************)
ServedImages == served.endpoint = "images"

\* C29: every file stored in the uploads directory by a successful upload is listed
\* by GET /images, and the count of the response equals the number of listed images
C29_InventoryIsComplete ==
  ServedImages =>
    /\ \A f \in Uploaded(disk) :
         \E k \in 1..Len(served.response.images) : served.response.images[k].filename = f[2]
    /\ "count" \in DOMAIN served.response =>
         served.response.count = Len(served.response.images)

(***************************************************************************)
(* Termination of the product search.                                      *)
(***************************************************************************)
\* the search terms of all posted items, as (item, position) pairs
AllTerms ==
  {p \in (1..Len(PostedItems)) \X (1..MaxTerms + 1) : p[2] <= Len(ClaimedTerms(PostedItems[p[1]]))}

\* no more queries than terms: per item, and so over the whole request
QueriesWithinTerms ==
  PostedFoodItems =>
    /\ \A i \in 1..Len(PostedItems) :
         Cardinality(QueryIdx(i)) <= Len(ClaimedTerms(PostedItems[i]))
    /\ Len(queries) <= Cardinality(AllTerms)

\* C30: a search request that passed validation is answered, once, provided every
\* database call returns or throws; until then it issues at most one query per
\* search term of each item
C30_SearchResponds ==
  /\ []QueriesWithinTerms
  /\ [][searchResp # NoResponse => searchResp' = searchResp]_vars
  /\ (pc = "fetching") ~> (pc = "done" /\ searchResp # NoResponse)

\* a request of two items was answered after every one of its three or more terms
\* was queried
C30_Witness ==
  /\ pc = "done"
  /\ PostedFoodItems
  /\ searchResp.status = 200
  /\ Len(PostedItems) = 2
  /\ Len(queries) = Cardinality(AllTerms)
  /\ Len(queries) >= 3

====
